---- MODULE Spec2Model ----
(***************************************************************************)
(* Model of src/main.py: a Telegram analytics bot.  The aiogram handlers   *)
(* (log_message, member_update, the two command handlers) run on one       *)
(* asyncio event loop; the Flask /dashboard view runs on a second thread.  *)
(* Records go either to two module-level lists (USE_DATABASE false) or to  *)
(* two SQLAlchemy tables through one module-level Session shared by both   *)
(* threads (USE_DATABASE true).                                            *)
(*                                                                         *)
(* Texts are sequences of one-character strings.  The columns id and       *)
(* timestamp are left out: no handler and no line of the dashboard reads   *)
(* them.  The replies of the two command handlers are left out as well:    *)
(* they touch neither store nor the premium side effects.                  *)
(*                                                                         *)
(* SQLAlchemy is modelled at the granularity of its calls: session.add,    *)
(* session.commit and session.query(...).all() are each one step.  A       *)
(* commit whose flush fails rolls the transaction back, expunges the       *)
(* pending objects and leaves the Session inactive: until                  *)
(* session.rollback() is called (the program never calls it) commit and    *)
(* query raise.                                                            *)
(*                                                                         *)
(* Line 187 of the source is not valid Python as written (a conditional    *)
(* expression without parentheses inside a comprehension filter).  The     *)
(* handlers and the other lines of the dashboard are modelled as written;  *)
(* line 187 is read as the filter it can only be meant to be,              *)
(*   if (m["profane"] if not USE_DATABASE else getattr(m, "profane")).     *)
(***************************************************************************)
EXTENDS Integers, Sequences, FiniteSets, TLC

\* ------------------------------------------------------------------ bounds
\* The records the two stores hold together, the pending ones counted.
MaxRecords == 3

\* ------------------------------------------------------------- text values
\* msg.text is None for a message without text.
NoText == <<"None">>
\* user.username is None for a user without a username.
NoUsername == "None"

T_empty == <<>>
T_hi == <<"h", "i">>
T_abuse == <<"A", "B", "C", " ", "#", "G", "o">>
T_start == <<"/", "s", "t", "a", "r", "t", " ", "b", "c">>
T_dashboard == <<"/", "d", "a", "s", "h", "b", "o", "a", "r", "d">>
\* one hashtag twice in one text, and another hashtag
T_tags == <<"#", "G", "o", " ", "#", "g", "o">>
T_x == <<"#", "x", "!">>

Texts == {NoText, T_empty, T_hi, T_abuse, T_start, T_dashboard}

ChatIds == {7}
UserIds == {1, 2}
\* ChatMemberStatus of the Bot API
Statuses == {"creator", "administrator", "member", "restricted", "left", "kicked"}

\* msg.from_user.username / user.username: user 2 has no username.
Usernames == <<"alice", NoUsername, "dave", "bob", "erin", "carol">>

UsernameOf(u) == Usernames[u]

\* --------------------------------------------------------- str(), lower()
Digits == <<"0", "1", "2", "3", "4", "5", "6", "7", "8", "9">>

RECURSIVE StrNat(_)
StrNat(n) == IF n < 10 THEN <<Digits[n + 1]>>
             ELSE StrNat(n \div 10) \o <<Digits[(n % 10) + 1]>>

\* str(int)
Str(n) == IF n < 0 THEN <<"-">> \o StrNat(-n) ELSE StrNat(n)

UpperChars == <<"A", "B", "C", "D", "E", "F", "G", "H", "I", "J", "K", "L", "M",
                "N", "O", "P", "Q", "R", "S", "T", "U", "V", "W", "X", "Y", "Z">>
LowerChars == <<"a", "b", "c", "d", "e", "f", "g", "h", "i", "j", "k", "l", "m",
                "n", "o", "p", "q", "r", "s", "t", "u", "v", "w", "x", "y", "z">>

LowerChar(c) == IF \E i \in 1..Len(UpperChars) : UpperChars[i] = c
                THEN LowerChars[CHOOSE i \in 1..Len(UpperChars) : UpperChars[i] = c]
                ELSE c

\* text.lower()
Lower(text) == [i \in 1..Len(text) |-> LowerChar(text[i])]

\* word in text: the substring test of Python's "in" on strings
IsSubstring(w, text) ==
    \E i \in 0..(Len(text) - Len(w)) :
        \A j \in 1..Len(w) : text[i + j] = w[j]

\* ------------------------------------------------------------- classifier
BAD_WORDS == { <<"m", "a", "d", "a", "r", "c", "h", "o", "d">>,
               <<"b", "h", "o", "s", "d", "i", "k", "e">>,
               <<"c", "h", "u", "t", "i", "y", "a">>,
               <<"g", "a", "a", "n", "d">>,
               <<"b", "c">> }

\* Mutant of is_profane: the text is not lower-cased.
is_profane_as_typed(text) == \E word \in BAD_WORDS : IsSubstring(word, text)

is_profane(text) == \E word \in BAD_WORDS : IsSubstring(word, Lower(text))

\* \w of the re module, on the characters the model uses
IsWordChar(c) ==
    \/ \E i \in 1..Len(LowerChars) : LowerChars[i] = c \/ UpperChars[i] = c
    \/ \E i \in 1..Len(Digits) : Digits[i] = c
    \/ c = "_"

\* The end of the longest run of word characters starting at position i.
RECURSIVE WordRunEnd(_, _)
WordRunEnd(s, i) == IF i <= Len(s) /\ IsWordChar(s[i]) THEN WordRunEnd(s, i + 1)
                    ELSE i - 1

\* re.findall(r"#\w+", s) scanning from position i: leftmost, greedy,
\* non-overlapping matches, in order, repeats kept.
RECURSIVE FindAllFrom(_, _)
FindAllFrom(s, i) ==
    IF i > Len(s) THEN <<>>
    ELSE IF s[i] = "#" /\ WordRunEnd(s, i + 1) >= i + 1
         THEN <<SubSeq(s, i, WordRunEnd(s, i + 1))>>
              \o FindAllFrom(s, WordRunEnd(s, i + 1) + 1)
         ELSE FindAllFrom(s, i + 1)

extract_hashtags(text) == FindAllFrom(Lower(text), 1)

\* Mutant of HasText: only None counts as no text ("if msg.text is None").
HasTextNotNone(text) == text # NoText

\* if not msg.text: None and "" are both falsy
HasText(text) == text # NoText /\ text # T_empty

\* The first whitespace-delimited word of a text.
RECURSIVE FirstWordEnd(_, _)
FirstWordEnd(s, i) == IF i <= Len(s) /\ s[i] # " " THEN FirstWordEnd(s, i + 1)
                      ELSE i - 1

FirstWord(s) == SubSeq(s, 1, FirstWordEnd(s, 1))

\* Mutant of Dispatch: the catch-all handler is registered first.
DispatchCatchAllFirst(text) == "log_message"

\* The handlers are tried in registration order; the first whose filter
\* matches handles the message and the others are not called.
Dispatch(text) ==
    IF HasText(text) /\ FirstWord(text) = <<"/", "s", "t", "a", "r", "t">>
    THEN "start_cmd"
    ELSE IF HasText(text) /\ FirstWord(text) = T_dashboard
         THEN "dashboard_cmd"
         ELSE "log_message"

\* Mutant of EventType: every arrival at "member" is a join.
EventTypeAnyToMember(old, new) ==
    IF old # "member" /\ new = "member" THEN "join"
    ELSE IF old = "member" /\ new \in {"left", "kicked"} THEN "leave"
         ELSE "none"

\* event_type of member_update; "none" stands for None
EventType(old, new) ==
    IF old \in {"left", "kicked"} /\ new = "member" THEN "join"
    ELSE IF old = "member" /\ new \in {"left", "kicked"} THEN "leave"
         ELSE "none"

\* ------------------------------------------------------------------ state
VARIABLES
    USE_DATABASE,    \* the configuration flag read at import
    premium_users,   \* the set of premium user ids
    messages,        \* the in-memory list of message dicts
    member_events,   \* the in-memory list of member-event dicts
    db,              \* the committed rows of the two tables
    session,         \* the shared Session: pending objects, usable or not
    running,         \* what the event-loop thread is in the middle of
    waiting,         \* log_message calls suspended at "await msg.reply"
    alerts,          \* the abuse alerts handed to the transport, in order
    accepted,        \* history: the text events whose record was stored
    last,            \* the last step of the event-loop thread
    d_pc,            \* where the dashboard request on the web thread is
    msgs,            \* dashboard local msgs (the query result)
    evts,            \* dashboard local evts (the query result)
    view             \* the dashboard locals the page is rendered from

vars == <<USE_DATABASE, premium_users, messages, member_events, db, session,
          running, waiting, alerts, accepted, last, d_pc, msgs, evts, view>>

config == <<USE_DATABASE, premium_users>>
dash == <<d_pc, msgs, evts, view>>

TextEvents == [kind : {"text"}, chat : ChatIds, user : UserIds, text : Texts]
MemberEvents == [kind : {"member"}, chat : ChatIds, user : UserIds,
                 old : Statuses, new : Statuses]

NoEvent == [kind |-> "none"]
Idle == [pc |-> "idle", ev |-> NoEvent]

\* Mutant of MessageDict: the hashtags are taken from the text as typed,
\* not lower-cased.
MessageDictRawHashtags(ev) ==
    [chat_id |-> Str(ev.chat), user_id |-> Str(ev.user),
     username |-> UsernameOf(ev.user), text |-> ev.text,
     profane |-> is_profane(ev.text), hashtags |-> FindAllFrom(ev.text, 1)]

\* The dict appended to messages (timestamp left out).
MessageDict(ev) ==
    [chat_id |-> Str(ev.chat), user_id |-> Str(ev.user),
     username |-> UsernameOf(ev.user), text |-> ev.text,
     profane |-> is_profane(ev.text), hashtags |-> extract_hashtags(ev.text)]

\* The Message row: the table has no hashtags column.
MessageRow(ev) ==
    [chat_id |-> Str(ev.chat), user_id |-> Str(ev.user),
     username |-> UsernameOf(ev.user), text |-> ev.text,
     profane |-> is_profane(ev.text)]

\* Mutant of MemberEventRecord: every record is stored as a join.
MemberEventRecordAlwaysJoin(ev) ==
    [chat_id |-> Str(ev.chat), user_id |-> Str(ev.user),
     username |-> UsernameOf(ev.user), event_type |-> "join"]

\* The member-event dict and the MemberEvent row have the same fields.
MemberEventRecord(ev) ==
    [chat_id |-> Str(ev.chat), user_id |-> Str(ev.user),
     username |-> UsernameOf(ev.user), event_type |-> EventType(ev.old, ev.new)]

\* The reply "Abusive language detected!" to the message of ev.
Alert(ev) == [chat |-> ev.chat, user |-> ev.user, text |-> ev.text]

\* session.new, one table's objects only
RECURSIVE PendingOf(_, _)
PendingOf(new, table) ==
    IF new = <<>> THEN <<>>
    ELSE (IF Head(new).table = table THEN <<Head(new).row>> ELSE <<>>)
         \o PendingOf(Tail(new), table)

\* What session.query(Message).all() returns: the query flushes the pending
\* objects first, so it sees them after the committed rows.
QueryMessages == db.messages \o PendingOf(session.new, "messages")
QueryMemberEvents == db.member_events \o PendingOf(session.new, "member_events")

\* The records the store holds: the list, or the committed rows.
StoredMessages == IF USE_DATABASE THEN db.messages ELSE messages
StoredMemberEvents == IF USE_DATABASE THEN db.member_events ELSE member_events

\* The guard that keeps the model finite: no handler stores a record once
\* MaxRecords records are stored or pending.
RoomForRecord ==
    IF USE_DATABASE
    THEN Len(db.messages) + Len(db.member_events) + Len(session.new) < MaxRecords
    ELSE Len(messages) + Len(member_events) < MaxRecords

\* The dashboard locals before a request has computed them.
NoView == [total_messages |-> 0, joins |-> 0, leaves |-> 0,
           leaderboard |-> <<>>, top5_hashtags |-> <<>>]

Init ==
    /\ USE_DATABASE \in BOOLEAN
    /\ premium_users \in {{}, {1}}
    /\ messages = <<>>
    /\ member_events = <<>>
    /\ db = [messages |-> <<>>, member_events |-> <<>>]
    /\ session = [new |-> <<>>, active |-> TRUE]
    /\ running = Idle
    /\ waiting = <<>>
    /\ alerts = <<>>
    /\ accepted = <<>>
    /\ last = [op |-> "start", ev |-> NoEvent, out |-> "none"]
    /\ d_pc = "idle"
    /\ msgs = <<>>
    /\ evts = <<>>
    /\ view = NoView

\* ------------------------------------------------------- the event loop
\* Mutant of AfterSave: the alert does not look at the tier.
AfterSaveAlertsEveryTier(ev) ==
    IF is_profane(ev.text)
    THEN /\ alerts' = Append(alerts, Alert(ev))
         /\ waiting' = Append(waiting, ev)
         /\ running' = Idle
    ELSE IF ev.user \in premium_users
         THEN /\ running' = [pc |-> "enrich", ev |-> ev]
              /\ UNCHANGED <<alerts, waiting>>
         ELSE /\ running' = Idle
              /\ UNCHANGED <<alerts, waiting>>

\* Lines 132-139 of log_message, from the saved record to the next point
\* where the coroutine leaves the event loop or ends: the alert is handed
\* to the transport and the coroutine waits for its answer, or the
\* enrichment request is made (a blocking call: the thread stays in it),
\* or the handler is over.
AfterSave(ev) ==
    LET profane == is_profane(ev.text) IN
    IF profane /\ ev.user \in premium_users
    THEN /\ alerts' = Append(alerts, Alert(ev))
         /\ waiting' = Append(waiting, ev)
         /\ running' = Idle
    ELSE IF ev.user \in premium_users
         THEN /\ running' = [pc |-> "enrich", ev |-> ev]
              /\ UNCHANGED <<alerts, waiting>>
         ELSE /\ running' = Idle
              /\ UNCHANGED <<alerts, waiting>>

\* start_cmd: a message whose text is the /start command.
StartCmd(ev) ==
    /\ running = Idle
    /\ Dispatch(ev.text) = "start_cmd"
    /\ last' = [op |-> "start_cmd", ev |-> ev, out |-> "replied"]
    /\ UNCHANGED <<config, messages, member_events, db, session, running,
                   waiting, alerts, accepted, dash>>

\* dashboard_cmd: a message whose text is the /dashboard command.
DashboardCmd(ev) ==
    /\ running = Idle
    /\ Dispatch(ev.text) = "dashboard_cmd"
    /\ last' = [op |-> "dashboard_cmd", ev |-> ev,
                out |-> IF ev.user \in premium_users THEN "premium" ELSE "free"]
    /\ UNCHANGED <<config, messages, member_events, db, session, running,
                   waiting, alerts, accepted, dash>>

\* log_message up to its first suspension: every other message.
LogMessage(ev) ==
    /\ running = Idle
    /\ Dispatch(ev.text) = "log_message"
    /\ IF ~HasText(ev.text)
       THEN /\ last' = [op |-> "log_message", ev |-> ev, out |-> "dropped"]
            /\ UNCHANGED <<messages, session, accepted, running, waiting, alerts>>
       ELSE /\ RoomForRecord
            /\ IF USE_DATABASE
               THEN /\ session' = [session EXCEPT !.new =
                          Append(@, [table |-> "messages", row |-> MessageRow(ev)])]
                    /\ running' = [pc |-> "commit", ev |-> ev]
                    /\ last' = [op |-> "log_message", ev |-> ev, out |-> "added"]
                    /\ UNCHANGED <<messages, accepted, waiting, alerts>>
               ELSE /\ messages' = Append(messages, MessageDict(ev))
                    /\ accepted' = Append(accepted, ev)
                    /\ AfterSave(ev)
                    /\ last' = [op |-> "log_message", ev |-> ev, out |-> "appended"]
                    /\ UNCHANGED session
    /\ UNCHANGED <<config, member_events, db, dash>>

\* member_update
MemberUpdate(ev) ==
    /\ running = Idle
    /\ IF EventType(ev.old, ev.new) = "none"
       THEN /\ last' = [op |-> "member_update", ev |-> ev, out |-> "none"]
            /\ UNCHANGED <<member_events, session, running>>
       ELSE /\ RoomForRecord
            /\ IF USE_DATABASE
               THEN /\ session' = [session EXCEPT !.new =
                          Append(@, [table |-> "member_events",
                                     row |-> MemberEventRecord(ev)])]
                    /\ running' = [pc |-> "commit", ev |-> ev]
                    /\ last' = [op |-> "member_update", ev |-> ev, out |-> "added"]
                    /\ UNCHANGED member_events
               ELSE /\ member_events' = Append(member_events, MemberEventRecord(ev))
                    /\ last' = [op |-> "member_update", ev |-> ev, out |-> "appended"]
                    /\ UNCHANGED <<session, running>>
    /\ UNCHANGED <<config, messages, db, waiting, alerts, accepted, dash>>

\* Mutant of Committed: the commit rewrites each table from the pending
\* objects alone.
CommittedReplacing(tables, new) ==
    [messages |-> PendingOf(new, "messages"),
     member_events |-> PendingOf(new, "member_events")]

\* The tables after the pending objects are flushed and committed.
Committed(tables, new) ==
    [messages |-> tables.messages \o PendingOf(new, "messages"),
     member_events |-> tables.member_events \o PendingOf(new, "member_events")]

\* Mutant of AfterFailedCommit: nothing is rolled back, the objects stay
\* pending in a usable Session.
AfterFailedCommitKeepsPending(sess) == sess

\* The Session after a flush that failed inside commit(): the transaction
\* is rolled back, the pending objects are expunged, and the Session
\* refuses further work until rollback() is called.  A Session that is
\* already in that state raises before it flushes and keeps its objects.
AfterFailedCommit(sess) ==
    IF sess.active THEN [new |-> <<>>, active |-> FALSE] ELSE sess

\* session.commit() returns: the handler goes on after the save.
CommitOk ==
    /\ running.pc = "commit"
    /\ session.active
    /\ db' = Committed(db, session.new)
    /\ session' = [session EXCEPT !.new = <<>>]
    /\ last' = [op |-> "commit", ev |-> running.ev, out |-> "committed"]
    /\ IF running.ev.kind = "text"
       THEN /\ accepted' = Append(accepted, running.ev)
            /\ AfterSave(running.ev)
       ELSE /\ running' = Idle
            /\ UNCHANGED <<accepted, waiting, alerts>>
    /\ UNCHANGED <<config, messages, member_events, dash>>

\* Mutant of CommitFail: the exception is swallowed and the handler goes on.
CommitFailSwallowed ==
    /\ running.pc = "commit"
    /\ session' = [new |-> <<>>, active |-> FALSE]
    /\ last' = [op |-> "commit", ev |-> running.ev, out |-> "swallowed"]
    /\ IF running.ev.kind = "text"
       THEN AfterSave(running.ev)
       ELSE running' = Idle /\ UNCHANGED <<waiting, alerts>>
    /\ UNCHANGED <<config, messages, member_events, db, accepted, dash>>

\* session.commit() raises: the exception leaves the handler.
CommitFail ==
    /\ running.pc = "commit"
    /\ session' = AfterFailedCommit(session)
    /\ running' = Idle
    /\ last' = [op |-> "commit", ev |-> running.ev, out |-> "raised"]
    /\ UNCHANGED <<config, messages, member_events, db, waiting, alerts,
                   accepted, dash>>

RemoveAt(seq, i) == SubSeq(seq, 1, i - 1) \o SubSeq(seq, i + 1, Len(seq))

\* "await msg.reply" is over for the i-th suspended call: it returned, and
\* line 137 is reached, or it raised, and the exception leaves the handler.
ReplyDone(i, ok) ==
    /\ running = Idle
    /\ i \in 1..Len(waiting)
    /\ waiting' = RemoveAt(waiting, i)
    /\ IF ok
       THEN /\ running' = IF waiting[i].user \in premium_users
                          THEN [pc |-> "enrich", ev |-> waiting[i]]
                          ELSE Idle
            /\ last' = [op |-> "reply", ev |-> waiting[i], out |-> "sent"]
       ELSE /\ running' = Idle
            /\ last' = [op |-> "reply", ev |-> waiting[i], out |-> "raised"]
    /\ UNCHANGED <<config, messages, member_events, db, session, alerts,
                   accepted, dash>>

\* What requests.post and res.json() can come to: the request raises (a
\* timeout after 5 s, a connection error), the body is not JSON, the JSON
\* value is not an object, or it is an object: without the two keys, with
\* both as documented, or with both holding values of another type (null,
\* a number).
Responses == {"timeout", "connection_error", "not_json", "json_not_dict",
              "json_no_keys", "json_full", "json_wrong_types"}

Neutral == [keywords |-> <<>>, sentiment |-> "neutral"]

\* run_gemini_analysis: what it returns for each outcome of the request.
\* Every exception of lines 80-83 ends in the except clause; r.get returns
\* the value of a key that is present as it is, whatever its type:
\* <<"None">> stands for None and "5" for the number 5.
run_gemini_analysis(resp) ==
    IF resp = "json_full" THEN [keywords |-> <<"kw">>, sentiment |-> "positive"]
    ELSE IF resp = "json_wrong_types"
         THEN [keywords |-> <<"None">>, sentiment |-> "5"]
         ELSE Neutral

\* The blocking enrichment call returns and line 139 prints its result.
EnrichReturn(resp) ==
    /\ running.pc = "enrich"
    /\ running' = Idle
    /\ last' = [op |-> "run_gemini_analysis", ev |-> running.ev,
                out |-> run_gemini_analysis(resp), resp |-> resp]
    /\ UNCHANGED <<config, messages, member_events, db, session, waiting,
                   alerts, accepted, dash>>

\* ------------------------------------------------------- the web thread
\* The list the name msgs stands for in the dashboard: with the lists it
\* is the list messages itself, not a copy.
Msgs == IF USE_DATABASE THEN msgs ELSE messages
Evts == IF USE_DATABASE THEN evts ELSE member_events

\* Mutant of AfterQuery: the query throws the pending objects away.
AfterQueryExpunges(sess) == [sess EXCEPT !.new = <<>>]

\* The Session after query(...).all(): the autoflush sends the pending
\* objects to the open transaction, where they stay uncommitted, which is
\* all that session.new records here.
AfterQuery(sess) == sess

\* Lines 175-176 and 179: msgs is the query's result, or the list itself.
DashFetchMsgs ==
    /\ d_pc = "idle"
    /\ IF USE_DATABASE
       THEN IF session.active
            THEN d_pc' = "evts" /\ msgs' = QueryMessages
                 /\ session' = AfterQuery(session)
            ELSE d_pc' = "error" /\ UNCHANGED <<msgs, session>>
       ELSE d_pc' = "evts" /\ UNCHANGED <<msgs, session>>
    /\ UNCHANGED <<config, messages, member_events, db, running,
                   waiting, alerts, accepted, last, evts, view>>

\* Lines 177 and 180.
DashFetchEvts ==
    /\ d_pc = "evts"
    /\ IF USE_DATABASE
       THEN IF session.active
            THEN d_pc' = "fetched" /\ evts' = QueryMemberEvents
                 /\ session' = AfterQuery(session)
            ELSE d_pc' = "error" /\ UNCHANGED <<evts, session>>
       ELSE d_pc' = "fetched" /\ UNCHANGED <<evts, session>>
    /\ UNCHANGED <<config, messages, member_events, db, running,
                   waiting, alerts, accepted, last, msgs, view>>

\* len([e for e in evts if e["event_type"] == t])
CountEventType(list, t) ==
    Cardinality({i \in 1..Len(list) : list[i].event_type = t})

\* Lines 182-184.  With the tables, evts holds MemberEvent objects, and
\* e["event_type"] on the first of them raises TypeError: the class defines
\* no __getitem__.
DashCount ==
    /\ d_pc = "fetched"
    /\ IF USE_DATABASE /\ Evts # <<>>
       THEN /\ d_pc' = "error"
            /\ view' = [view EXCEPT !.total_messages = Len(Msgs)]
       ELSE /\ d_pc' = "counted"
            /\ view' = [view EXCEPT !.total_messages = Len(Msgs),
                                    !.joins = CountEventType(Evts, "join"),
                                    !.leaves = CountEventType(Evts, "leave")]
    /\ UNCHANGED <<config, messages, member_events, db, session, running,
                   waiting, alerts, accepted, last, msgs, evts>>

\* most_common(5)
TopN == 5

\* One more occurrence of the key k in a Counter: the pairs <<key, count>>
\* in the order in which the keys were first counted (a dict keeps the
\* insertion order).
CounterAdd(c, k) ==
    IF \E i \in 1..Len(c) : c[i][1] = k
    THEN [i \in 1..Len(c) |-> IF c[i][1] = k THEN <<k, c[i][2] + 1>> ELSE c[i]]
    ELSE Append(c, <<k, 1>>)

\* Counter(list)
RECURSIVE Counter(_)
Counter(list) ==
    IF list = <<>> THEN <<>>
    ELSE CounterAdd(Counter(SubSeq(list, 1, Len(list) - 1)), list[Len(list)])

\* The pair most_common puts first: the greatest count, and among equal
\* counts the pair counted first (heapq.nlargest is stable).
BestIndex(c) ==
    CHOOSE i \in 1..Len(c) :
        \A j \in 1..Len(c) : c[j][2] < c[i][2] \/ (c[j][2] = c[i][2] /\ j >= i)

\* Mutant of MostCommon: the first n pairs as counted, not sorted.
MostCommonUnsorted(c, n) == SubSeq(c, 1, IF n < Len(c) THEN n ELSE Len(c))

\* Counter.most_common(n)
RECURSIVE MostCommon(_, _)
MostCommon(c, n) ==
    IF n = 0 \/ c = <<>> THEN <<>>
    ELSE <<c[BestIndex(c)]>> \o MostCommon(RemoveAt(c, BestIndex(c)), n - 1)

\* Line 187, read as the conditional filter: the messages whose profane
\* entry (the list) or attribute (the table) is true.
ProfaneMsgs(list) == SelectSeq(list, LAMBDA m : m.profane)

\* Line 188
ProfUsers(list) ==
    Counter([i \in 1..Len(ProfaneMsgs(list)) |-> ProfaneMsgs(list)[i].username])

\* Lines 191-194: the stored hashtags of each message, or with the tables
\* the hashtags extracted from its text again, all in one list.
RECURSIVE AllHashtags(_, _)
AllHashtags(use_db, list) ==
    IF list = <<>> THEN <<>>
    ELSE (IF use_db THEN extract_hashtags(Head(list).text)
          ELSE Head(list).hashtags)
         \o AllHashtags(use_db, Tail(list))

\* Lines 195 and 199
TopHashtags(use_db, list) == MostCommon(Counter(AllHashtags(use_db, list)), TopN)

\* Lines 187-188 and 198: the leaderboard.
DashLeaderboard ==
    /\ d_pc = "counted"
    /\ d_pc' = "ranked"
    /\ view' = [view EXCEPT !.leaderboard = MostCommon(ProfUsers(Msgs), TopN)]
    /\ UNCHANGED <<config, messages, member_events, db, session, running,
                   waiting, alerts, accepted, last, msgs, evts>>

\* Lines 191-195 and 199: the top hashtags.
DashHashtags ==
    /\ d_pc = "ranked"
    /\ d_pc' = "done"
    /\ view' = [view EXCEPT !.top5_hashtags = TopHashtags(USE_DATABASE, Msgs)]
    /\ UNCHANGED <<config, messages, member_events, db, session, running,
                   waiting, alerts, accepted, last, msgs, evts>>

\* The request is over: lines 201-244 have rendered and returned the page,
\* or the exception has ended the request.
DashReturn ==
    /\ d_pc \in {"done", "error"}
    /\ d_pc' = "idle"
    /\ msgs' = <<>>
    /\ evts' = <<>>
    /\ view' = NoView
    /\ UNCHANGED <<config, messages, member_events, db, session, running,
                   waiting, alerts, accepted, last>>

\* The transitions of section 8 of the spec: one join, one leave, two that
\* are neither.
SomeTransitions == {<<"left", "member">>, <<"member", "kicked">>,
                    <<"member", "member">>, <<"administrator", "member">>}

SomeMemberEvents ==
    {ev \in MemberEvents : <<ev.old, ev.new>> \in SomeTransitions}

\* The events that store a record when the write succeeds.
StoringTextEvents == {ev \in TextEvents : ev.text \in {T_hi, T_abuse}}
StoringMemberEvents ==
    {ev \in MemberEvents : ev.user = 2 /\ EventType(ev.old, ev.new) # "none"
                            /\ "kicked" \notin {ev.old, ev.new}}

\* The whole program.
Next ==
    \/ \E ev \in TextEvents : StartCmd(ev)
    \/ \E ev \in TextEvents : DashboardCmd(ev)
    \/ \E ev \in TextEvents : LogMessage(ev)
    \/ \E ev \in SomeMemberEvents : MemberUpdate(ev)
    \/ CommitOk
    \/ CommitFail
    \/ \E i \in 1..MaxRecords, ok \in BOOLEAN : ReplyDone(i, ok)
    \/ \E resp \in Responses : EnrichReturn(resp)
    \/ DashFetchMsgs
    \/ DashFetchEvts
    \/ DashCount
    \/ DashLeaderboard
    \/ DashHashtags
    \/ DashReturn

Spec == Init /\ [][Next]_vars

\* The event loop alone: every message, the transitions of SomeTransitions.
NextLoop ==
    \/ \E ev \in TextEvents : StartCmd(ev)
    \/ \E ev \in TextEvents : DashboardCmd(ev)
    \/ \E ev \in TextEvents : LogMessage(ev)
    \/ \E ev \in SomeMemberEvents : MemberUpdate(ev)
    \/ CommitOk
    \/ CommitFail
    \/ \E i \in 1..MaxRecords, ok \in BOOLEAN : ReplyDone(i, ok)
    \/ \E resp \in Responses : EnrichReturn(resp)

SpecLoop == Init /\ [][NextLoop]_vars

\* member_update alone, on every pair of statuses.
NextMember ==
    \/ \E ev \in MemberEvents : MemberUpdate(ev)
    \/ CommitOk
    \/ CommitFail

SpecMember == Init /\ [][NextMember]_vars

\* The two threads together, on the events that store a record.
NextWeb ==
    \/ \E ev \in StoringTextEvents : LogMessage(ev)
    \/ \E ev \in StoringMemberEvents : MemberUpdate(ev)
    \/ CommitOk
    \/ CommitFail
    \/ \E i \in 1..MaxRecords, ok \in BOOLEAN : ReplyDone(i, ok)
    \/ \E resp \in Responses : EnrichReturn(resp)
    \/ DashFetchMsgs
    \/ DashFetchEvts
    \/ DashCount
    \/ DashLeaderboard
    \/ DashHashtags
    \/ DashReturn

SpecWeb == Init /\ [][NextWeb]_vars

\* The messages the aggregation is run on: the i-th stored message comes
\* from user i or from user 1 or 2, with a profane text, a clean one, or a
\* text with hashtags; one message more than most_common keeps.
AggLen == TopN + 1

AggEventsAt(i) ==
    {[kind |-> "text", chat |-> 7, user |-> i, text |-> T_abuse],
     [kind |-> "text", chat |-> 7, user |-> 1, text |-> T_abuse],
     [kind |-> "text", chat |-> 7, user |-> i, text |-> T_hi],
     [kind |-> "text", chat |-> 7, user |-> 1, text |-> T_tags],
     [kind |-> "text", chat |-> 7, user |-> 2, text |-> T_x]}

RECURSIVE AggSequencesOfLen(_)
AggSequencesOfLen(n) ==
    IF n = 0 THEN {<<>>}
    ELSE {Append(es, ev) : es \in AggSequencesOfLen(n - 1), ev \in AggEventsAt(n)}

AggSequences == UNION {AggSequencesOfLen(n) : n \in 0..AggLen}

\* The state after the text events es of Standard users were ingested and
\* stored, with nothing under way.
InitAgg ==
    /\ USE_DATABASE \in BOOLEAN
    /\ premium_users = {}
    /\ \E es \in AggSequences :
           /\ accepted = es
           /\ messages = IF USE_DATABASE THEN <<>>
                         ELSE [i \in 1..Len(es) |-> MessageDict(es[i])]
           /\ db = [messages |-> IF USE_DATABASE
                                 THEN [i \in 1..Len(es) |-> MessageRow(es[i])]
                                 ELSE <<>>,
                    member_events |-> <<>>]
    /\ member_events = <<>>
    /\ session = [new |-> <<>>, active |-> TRUE]
    /\ running = Idle
    /\ waiting = <<>>
    /\ alerts = <<>>
    /\ last = [op |-> "start", ev |-> NoEvent, out |-> "none"]
    /\ d_pc = "idle"
    /\ msgs = <<>>
    /\ evts = <<>>
    /\ view = NoView

\* The dashboard alone, on a store that does not change.
NextAgg ==
    \/ DashFetchMsgs
    \/ DashFetchEvts
    \/ DashCount
    \/ DashLeaderboard
    \/ DashHashtags
    \/ DashReturn

SpecAgg == InitAgg /\ [][NextAgg]_vars

\* The texts is_profane is tried on: every text of up to ClassifyLen of
\* the characters below, and some longer ones.
ClassifyLen == 3

ClassifyChars == {"b", "c", "B", "C", " "}

ClassifyTexts ==
    UNION {[1..n -> ClassifyChars] : n \in 0..ClassifyLen}
    \cup {T_abuse, T_hi,
          <<"G", "a", "A", "n", "D">>,
          <<"g", "a", "a", "n", " ", "d">>,
          <<"y", "o", "u", " ", "b", "c", " ", "i", "d", "i", "o", "t">>,
          <<"a", "B", "c", "d">>}

\* Line 107: log_message calls is_profane on a text.
IsProfaneCall(text) ==
    /\ running = Idle
    /\ last' = [op |-> "is_profane", ev |-> [kind |-> "call", text |-> text],
                out |-> is_profane(text)]
    /\ UNCHANGED <<config, messages, member_events, db, session, running,
                   waiting, alerts, accepted, dash>>

\* The classifier alone.
NextClassify == \E text \in ClassifyTexts : IsProfaneCall(text)

SpecClassify == Init /\ [][NextClassify]_vars

\* ------------------------------------------------------ shared by claims
Range(seq) == {seq[i] : i \in 1..Len(seq)}

IsPrefix(a, b) == Len(a) <= Len(b) /\ SubSeq(b, 1, Len(a)) = a

\* The hashtag set of section 4.1: every "#" of the lower-cased text that a
\* word character follows, with the whole run of word characters after it.
HashtagSet(text) ==
    LET s == Lower(text) IN
    {SubSeq(s, i, j) : <<i, j>> \in
        {p \in (1..Len(s)) \X (1..Len(s)) :
            /\ p[1] < p[2]
            /\ s[p[1]] = "#"
            /\ \A k \in (p[1] + 1)..p[2] : IsWordChar(s[k])
            /\ (p[2] = Len(s) \/ ~IsWordChar(s[p[2] + 1]))}}

\* Section 4.1: some denylisted token occurs in the lower-cased text.
DenylistHit(text) ==
    \E w \in BAD_WORDS : \E i \in 1..Len(text) :
        /\ i + Len(w) - 1 <= Len(text)
        /\ SubSeq(Lower(text), i, i + Len(w) - 1) = w

\* A stored record carries the five stored fields of the event ev.
RecordOf(r, ev) ==
    /\ r.chat_id = Str(ev.chat)
    /\ r.user_id = Str(ev.user)
    /\ r.username = UsernameOf(ev.user)
    /\ r.text = ev.text
    /\ r.profane = DenylistHit(ev.text)

\* The stored record carries the six observable fields of the event ev.
ObservableOf(r, ev) ==
    /\ RecordOf(r, ev)
    /\ "hashtags" \in DOMAIN r
    /\ Range(r.hashtags) = HashtagSet(ev.text)

\* The step on which the dashboard reads all messages while no handler is
\* between session.add and session.commit.
ReadAllStep == d_pc = "idle" /\ d_pc' # "idle" /\ running.pc # "commit"

\* ---------------------------------------------------------------- claims
\* C1: reading all messages after n accepted text events returns exactly n
\* records, in the order they were appended, and with either backend each
\* carries the observable content (chat_id, user_id, username, text,
\* profane, hashtags) of its event.
C1_ReadAllReturnsObservableContent ==
    [][(ReadAllStep /\ d_pc' = "evts") =>
          /\ Len(Msgs') = Len(accepted)
          /\ \A i \in 1..Len(accepted) : ObservableOf(Msgs'[i], accepted[i])]_vars

\* How often the record of ev occurs in a list of stored records.
Occurrences(list, ev) == Cardinality({i \in 1..Len(list) : RecordOf(list[i], ev)})

\* C2: a read-all that starts after two appends have completed, and while
\* no append is under way, observes each appended record exactly once, in
\* some order: none is lost, none is duplicated, and the read succeeds.
C2_ReadAfterAppendsSeesEachOnce ==
    [][(ReadAllStep /\ Len(accepted) >= 2) =>
          /\ d_pc' = "evts"
          /\ Len(Msgs') = Len(accepted)
          /\ \A ev \in Range(accepted) :
                 Occurrences(Msgs', ev) = Occurrences(StoredMessages, ev)
          /\ \A ev \in Range(accepted) : Occurrences(Msgs', ev) >= 1]_vars

\* C3: the store is append-only: on every step the stored message sequence
\* and the stored membership-event sequence extend their earlier value.
C3_AppendOnly ==
    [][/\ IsPrefix(StoredMessages, StoredMessages')
       /\ IsPrefix(StoredMemberEvents, StoredMemberEvents')]_vars

\* C3 witness: both stores hold a record while a dashboard request has read
\* them.
C3_Witness ==
    /\ Len(StoredMessages) >= 1
    /\ Len(StoredMemberEvents) >= 1
    /\ d_pc = "fetched"

\* The record of the text event ev is in the store.
Stored(ev) == \E i \in 1..Len(StoredMessages) : RecordOf(StoredMessages[i], ev)

\* C4: whenever the alert of a text event has been handed to the transport,
\* or its enrichment call is running or has returned (with a result or with
\* the fallback of a failure or timeout), the record of that event is in
\* the store.
C4_RecordStoredBeforeSideEffects ==
    /\ \A i \in 1..Len(alerts) :
           \E j \in 1..Len(StoredMessages) :
               /\ StoredMessages[j].chat_id = Str(alerts[i].chat)
               /\ StoredMessages[j].user_id = Str(alerts[i].user)
               /\ StoredMessages[j].text = alerts[i].text
    /\ \A i \in 1..Len(waiting) : Stored(waiting[i])
    /\ running.pc = "enrich" => Stored(running.ev)
    /\ last.op = "run_gemini_analysis" => Stored(last.ev)

\* C4 witness: with the durable backend, the enrichment call of an alerted
\* event has come back with the fallback of a failure.
C4_Witness ==
    /\ USE_DATABASE
    /\ Len(alerts) >= 1
    /\ last.op = "run_gemini_analysis"
    /\ last.out = Neutral
    /\ is_profane(last.ev.text)

\* C5: while the enrichment call of one event is pending, another incoming
\* text event can be classified and appended.
C5_IngestionNotBlockedByEnrichment ==
    (running.pc = "enrich" /\ RoomForRecord) =>
        ENABLED (\E ev \in TextEvents : HasText(ev.text) /\ LogMessage(ev))

\* The event type member_update came to on its last call: none, or the
\* event_type of the record it stored or handed to the Session.
ObservedEventType ==
    IF last.out = "none" THEN "none"
    ELSE IF USE_DATABASE
         THEN session.new[Len(session.new)].row.event_type
         ELSE member_events[Len(member_events)].event_type

\* C6: for every pair (previous status, new status) the classification is
\* Join iff previous is Left or Kicked and new is Member, Leave iff previous
\* is Member and new is Left or Kicked, and None for every other pair.
C6_MembershipClassification ==
    last.op = "member_update" =>
        LET join == last.ev.old \in {"left", "kicked"} /\ last.ev.new = "member"
            leave == last.ev.old = "member" /\ last.ev.new \in {"left", "kicked"}
        IN /\ ObservedEventType = "join" <=> join
           /\ ObservedEventType = "leave" <=> leave
           /\ ObservedEventType = "none" <=> (~join /\ ~leave)

\* C6 witness: member_update has classified Kicked -> Member and stored it.
C6_Witness ==
    /\ last.op = "member_update"
    /\ last.ev.old = "kicked"
    /\ last.ev.new = "member"
    /\ last.out # "none"

\* A step of the event loop that is about a text event.
TextStep == d_pc' = d_pc /\ last'.ev.kind = "text"

\* The step on which the handling of a text event is over, up to the first
\* suspension of its handler: a command handler ran, log_message dropped
\* the event or appended to the list, or session.commit() returned or raised.
TextHandledStep ==
    /\ TextStep
    /\ \/ last'.op \in {"start_cmd", "dashboard_cmd"}
       \/ last'.op = "log_message" /\ last'.out \in {"dropped", "appended"}
       \/ last'.op = "commit"

AbsentOrEmpty(text) == text = NoText \/ Len(text) = 0

\* The text is the /start or the /dashboard command, alone or with
\* arguments.
IsCommand(text) ==
    \E c \in {<<"/", "s", "t", "a", "r", "t">>,
              <<"/", "d", "a", "s", "h", "b", "o", "a", "r", "d">>} :
        /\ Len(text) >= Len(c)
        /\ SubSeq(text, 1, Len(c)) = c
        /\ (Len(text) = Len(c) \/ text[Len(c) + 1] = " ")

\* C7 as claimed: for every text event an alert is emitted iff the text is
\* profane and the user is Premium.
C7_AlertIffProfaneAndPremium ==
    [][(TextHandledStep /\ ~AbsentOrEmpty(last'.ev.text)) =>
          (alerts' # alerts <=>
              (DenylistHit(last'.ev.text) /\ last'.ev.user \in premium_users))]_vars

\* C7 as amended: on the step that stores the record of a text event an
\* alert for that event is emitted iff its text is profane and its user is
\* Premium; no other step of a text event emits an alert (a command, a
\* failed durable write); and no step of a Standard user's text event
\* emits an alert or starts an enrichment call.
C7_AlertIffStoredProfaneAndPremium ==
    [][TextStep =>
          /\ IF StoredMessages' # StoredMessages
                /\ DenylistHit(last'.ev.text) /\ last'.ev.user \in premium_users
             THEN alerts' = Append(alerts, Alert(last'.ev))
             ELSE alerts' = alerts
          /\ last'.ev.user \notin premium_users =>
                 (alerts' = alerts /\ running'.pc # "enrich")]_vars

\* C7 witness: the record of a Premium user's profane text was stored and
\* its alert emitted.
C7_Witness ==
    /\ last.op \in {"log_message", "commit"}
    /\ last.out \in {"appended", "committed"}
    /\ DenylistHit(last.ev.text)
    /\ last.ev.user \in premium_users
    /\ Len(alerts) >= 1
    /\ alerts[Len(alerts)] = Alert(last.ev)

C9_NoTextDropped ==
    [][(TextStep /\ AbsentOrEmpty(last'.ev.text)) =>
          /\ last'.op = "log_message"
          /\ last'.out = "dropped"
          /\ UNCHANGED <<messages, member_events, db, session, alerts,
                         waiting, running, accepted>>]_vars

\* C9 witness: an event with the empty text was dropped while the store
\* held a record.
C9_Witness ==
    /\ last.op = "log_message"
    /\ last.out = "dropped"
    /\ last.ev.text = T_empty
    /\ Len(StoredMessages) >= 1

\* The step on which a write to the durable backend fails: the thread
\* leaves session.commit() and no row was written.
WriteFailedStep == running.pc = "commit" /\ running'.pc # "commit" /\ db' = db

\* C10: when the durable write of an event fails, the handler ends with the
\* error raised to its caller, without alert or enrichment call, and a read
\* that the Session serves afterwards returns the committed rows only.
C10_FailedWriteReportedAndInvisible ==
    [][WriteFailedStep =>
          /\ last'.op = "commit"
          /\ last'.out = "raised"
          /\ running' = Idle
          /\ UNCHANGED <<alerts, waiting, accepted>>
          /\ session'.active =>
                 /\ QueryMessages' = db.messages
                 /\ QueryMemberEvents' = db.member_events]_vars

\* C10 witness: a durable write failed after another had been committed.
C10_Witness ==
    /\ USE_DATABASE
    /\ last.op = "commit"
    /\ last.out = "raised"
    /\ Len(db.messages) >= 1

\* The usernames with a stored profane message.
Offenders(list) == {list[i].username : i \in {j \in 1..Len(list) : list[j].profane}}

\* The number of stored profane messages of the username u.
ProfaneCount(list, u) ==
    Cardinality({i \in 1..Len(list) : list[i].profane /\ list[i].username = u})

\* The position of the first stored profane message of the username u.
FirstProfane(list, u) ==
    CHOOSE i \in 1..Len(list) :
        /\ list[i].profane /\ list[i].username = u
        /\ \A j \in 1..(i - 1) : ~(list[j].profane /\ list[j].username = u)

\* u ranks before v: more profane messages, or as many and seen first.
RanksBefore(list, u, v) ==
    \/ ProfaneCount(list, u) > ProfaneCount(list, v)
    \/ /\ ProfaneCount(list, u) = ProfaneCount(list, v)
       /\ FirstProfane(list, u) < FirstProfane(list, v)

\* lb is the leaderboard of the top n usernames of the stored messages.
IsLeaderboard(lb, list, n) ==
    /\ Len(lb) = IF Cardinality(Offenders(list)) < n
                 THEN Cardinality(Offenders(list)) ELSE n
    /\ \A k \in 1..Len(lb) :
           /\ lb[k][1] \in Offenders(list)
           /\ lb[k][2] = ProfaneCount(list, lb[k][1])
    /\ \A k \in 1..Len(lb) : \A l \in (k + 1)..Len(lb) :
           RanksBefore(list, lb[k][1], lb[l][1])
    /\ \A u \in Offenders(list) :
           (\A k \in 1..Len(lb) : lb[k][1] # u) =>
               \A k \in 1..Len(lb) : RanksBefore(list, lb[k][1], u)

StoredTags(list) == UNION {HashtagSet(list[i].text) : i \in 1..Len(list)}

\* The number of stored messages whose text contains the hashtag.
MessagesWithTag(list, tag) ==
    Cardinality({i \in 1..Len(list) : tag \in HashtagSet(list[i].text)})

\* C12: each message contributes its set of lower-cased hashtags, so in the
\* top hashtags of a view the count of a hashtag is the number of stored
\* messages whose text contains it, and the view lists the top 5 hashtags
\* by that count in descending order.
C12_HashtagCountIsMessagesContaining ==
    d_pc = "done" =>
        LET top == view.top5_hashtags
            tags == StoredTags(StoredMessages)
        IN /\ Len(top) = IF Cardinality(tags) < 5 THEN Cardinality(tags) ELSE 5
           /\ \A k \in 1..Len(top) :
                  /\ top[k][1] \in tags
                  /\ top[k][2] = MessagesWithTag(StoredMessages, top[k][1])
           /\ \A k \in 1..Len(top) : \A l \in (k + 1)..Len(top) :
                  top[k][1] # top[l][1] /\ top[k][2] >= top[l][2]
           /\ \A tag \in tags :
                  (\A k \in 1..Len(top) : top[k][1] # tag) =>
                      \A k \in 1..Len(top) :
                          top[k][2] >= MessagesWithTag(StoredMessages, tag)

\* The records the other backend holds after the same text events.
OtherBackendRecords ==
    IF USE_DATABASE THEN [i \in 1..Len(accepted) |-> MessageDict(accepted[i])]
    ELSE [i \in 1..Len(accepted) |-> MessageRow(accepted[i])]

\* C13: the hashtags stored with every message of the list are those
\* extract_hashtags gives for its text, and the top hashtags of a view are
\* those the other backend computes after the same ingested messages (from
\* stored hashtags with the list, from the text with the tables).
C13_HashtagsRederivableParity ==
    /\ \A i \in 1..Len(messages) :
           messages[i].hashtags = extract_hashtags(messages[i].text)
    /\ d_pc = "done" =>
           view.top5_hashtags = TopHashtags(~USE_DATABASE, OtherBackendRecords)

\* C13 witness: a view of the tables ranks two hashtags extracted from the
\* texts, one of them typed in capitals.
C13_Witness ==
    /\ USE_DATABASE
    /\ d_pc = "done"
    /\ Len(view.top5_hashtags) = 2
    /\ \E i \in 1..Len(db.messages) : db.messages[i].text = T_abuse

\* The number of membership events of one kind among those a request read.
KindCount(list, kind) ==
    Cardinality({i \in 1..Len(list) : list[i].event_type = kind})

\* C14: with either backend a dashboard request that has read the two
\* stores goes on to report total_message_count as the number of message
\* records, join_count as the number of membership events of kind Join and
\* leave_count as the number of kind Leave.
C14_DashboardCompletesWithCounts ==
    [][(d_pc = "fetched" /\ d_pc' # "fetched") =>
          /\ d_pc' = "counted"
          /\ view'.total_messages = Len(Msgs)
          /\ view'.joins = KindCount(Evts, "join")
          /\ view'.leaves = KindCount(Evts, "leave")]_vars

\* The (previous, new) pair of a membership event is a Join / a Leave.
IsJoin(ev) == ev.old \in {"left", "kicked"} /\ ev.new = "member"
IsLeave(ev) == ev.old = "member" /\ ev.new \in {"left", "kicked"}

\* The step on which the handling of a membership event is over:
\* member_update returned without a record or appended to the list, or
\* session.commit() returned or raised.
MemberHandledStep ==
    /\ last'.ev.kind = "member"
    /\ \/ last'.op = "member_update" /\ last'.out \in {"none", "appended"}
       \/ last'.op = "commit"

\* The membership-event sequence grew by exactly one record, of the kind
\* the pair of the handled event classifies as.
OneMemberEventAppended ==
    /\ Len(StoredMemberEvents') = Len(StoredMemberEvents) + 1
    /\ IsPrefix(StoredMemberEvents, StoredMemberEvents')
    /\ StoredMemberEvents'[Len(StoredMemberEvents')].event_type =
           (IF IsJoin(last'.ev) THEN "join" ELSE "leave")
    /\ StoredMemberEvents'[Len(StoredMemberEvents')].user_id = Str(last'.ev.user)
    /\ StoredMessages' = StoredMessages

\* C17 as claimed: every membership event whose pair is a Join or a Leave
\* appends exactly one membership event of that kind; for every other pair
\* both sequences are unchanged and no error is raised.
C17_MemberUpdateAppendsExactlyOne ==
    [][MemberHandledStep =>
          IF IsJoin(last'.ev) \/ IsLeave(last'.ev)
          THEN OneMemberEventAppended
          ELSE /\ last'.out = "none"
               /\ UNCHANGED <<messages, member_events, db, session>>]_vars

\* C17 as amended: a Join or Leave pair appends exactly one membership event
\* of that kind, or, with the durable backend, the write fails, the error
\* is raised and nothing is appended; no other step of the handler changes
\* the stored sequences; for every other pair the handler is a no-op.
C17_MemberUpdateAppendsOneOrRaises ==
    [][last'.ev.kind = "member" =>
          IF MemberHandledStep
          THEN IF IsJoin(last'.ev) \/ IsLeave(last'.ev)
               THEN \/ /\ OneMemberEventAppended
                       /\ last'.out \in {"appended", "committed"}
                    \/ /\ USE_DATABASE
                       /\ last'.out = "raised"
                       /\ StoredMemberEvents' = StoredMemberEvents
                       /\ StoredMessages' = StoredMessages
               ELSE /\ last'.out = "none"
                    /\ UNCHANGED <<messages, member_events, db, session>>
          ELSE /\ StoredMemberEvents' = StoredMemberEvents
               /\ StoredMessages' = StoredMessages]_vars

\* C17 witness: a Leave was committed after a Join.
C17_Witness ==
    /\ USE_DATABASE
    /\ last.op = "commit"
    /\ last.out = "committed"
    /\ IsLeave(last.ev)
    /\ Len(db.member_events) = 2
    /\ db.member_events[1].event_type = "join"
    /\ db.member_events[2].event_type = "leave"

RECURSIVE SumCounts(_)
SumCounts(pairs) ==
    IF pairs = <<>> THEN 0 ELSE Head(pairs)[2] + SumCounts(Tail(pairs))

\* C19: a complete view is computed over one snapshot: the counts of its
\* leaderboard sum to no more than its total_message_count, and its total,
\* its leaderboard and its top hashtags are those of one prefix of the
\* stored messages.
C19_ViewOverOneSnapshot ==
    d_pc = "done" =>
        /\ SumCounts(view.leaderboard) <= view.total_messages
        /\ \E k \in 0..Len(StoredMessages) :
               /\ view.total_messages = k
               /\ IsLeaderboard(view.leaderboard, SubSeq(StoredMessages, 1, k), 5)
               /\ view.top5_hashtags =
                      TopHashtags(USE_DATABASE, SubSeq(StoredMessages, 1, k))

\* C20: with the durable backend the store stays usable whatever has
\* failed before: a handler that has reached session.commit() can have its
\* record committed, and a dashboard request can read the messages.
C20_FailedWriteDoesNotDisableStore ==
    USE_DATABASE =>
        /\ running.pc = "commit" => ENABLED CommitOk
        /\ d_pc = "idle" => ENABLED (DashFetchMsgs /\ d_pc' = "evts")

\* The outcomes of the request that are a network failure, a timeout or a
\* malformed response: no answer, no JSON, or JSON that is not the object
\* with a keyword list and a sentiment string.
FailedResponses == {"timeout", "connection_error", "not_json", "json_not_dict",
                    "json_wrong_types"}

\* C15: the enrichment call never raises to the ingestion path but returns
\* a pair: on network failure, timeout or a malformed response exactly the
\* empty keyword list and "neutral"; and it is made once: when it has
\* returned the handler is over.
C15_EnrichmentFallsBackToNeutral ==
    last.op = "run_gemini_analysis" =>
        /\ DOMAIN last.out = {"keywords", "sentiment"}
        /\ last.resp \in FailedResponses => last.out = Neutral
        /\ running = Idle

\* The text with the case of every letter changed.
SwapCase(text) ==
    [i \in 1..Len(text) |->
        IF \E k \in 1..Len(UpperChars) : UpperChars[k] = text[i]
        THEN LowerChars[CHOOSE k \in 1..Len(UpperChars) : UpperChars[k] = text[i]]
        ELSE IF \E k \in 1..Len(LowerChars) : LowerChars[k] = text[i]
             THEN UpperChars[CHOOSE k \in 1..Len(LowerChars) : LowerChars[k] = text[i]]
             ELSE text[i]]

\* C16: is_profane(text) is true iff some token of the denylist occurs as a
\* substring of the lower-cased text, word boundary or not; it is false for
\* the empty text and gives the same answer whatever the case of the text.
C16_ProfaneIffDenylistSubstring ==
    last.op = "is_profane" =>
        /\ last.out <=> DenylistHit(last.ev.text)
        /\ last.ev.text = <<>> => ~last.out
        /\ is_profane(SwapCase(last.ev.text)) = last.out

\* C16 witness: a token in mixed case inside a longer word is found.
C16_Witness ==
    /\ last.op = "is_profane"
    /\ last.ev.text = <<"a", "B", "c", "d">>
    /\ last.out

====
